---- MODULE Spec2Model ----
(***************************************************************************)
(* Model of the vibecontrols definition/control contract: the five         *)
(* Definition types (Boolean, Text, Interval, Options, Array), their       *)
(* construction checks (__post_init__), validate_value, produce_control,   *)
(* produce_default, serialize_value, and the transition operations of the  *)
(* five Control types.                                                     *)
(*                                                                         *)
(* Python values are records [k, n, t, e]: k is the primitive kind, n and  *)
(* t the numeric payload, e the members of a sequence kind (str, list,     *)
(* tuple).  A number is n + t * 10^-TinyDigits: a whole part and a part    *)
(* finer than the step tolerance _FLOAT_EPSILON.  Numbers are exact, so    *)
(* arithmetic has no rounding error.                                       *)
(***************************************************************************)
EXTENDS Integers, Sequences, FiniteSets, TLC

VARIABLES definition, controls, outcome, callers

vars == << definition, controls, outcome, callers >>

(***************************************************************************)
(* Bounds of the model.                                                    *)
(***************************************************************************)
\* Number of Control instances kept alive at once.
MaxControls == 2
\* Longest chain of toggle calls followed from one Control.
MaxToggles == 4

(***************************************************************************)
(* Python values.                                                          *)
(***************************************************************************)
PyNone == [ k |-> "none", n |-> 0, t |-> 0, e |-> << >> ]
PyBool(b) == [ k |-> "bool", n |-> IF b THEN 1 ELSE 0, t |-> 0, e |-> << >> ]
PyInt(i) == [ k |-> "int", n |-> i, t |-> 0, e |-> << >> ]
PyFloat(i) == [ k |-> "float", n |-> i, t |-> 0, e |-> << >> ]
\* The float i + t * 10^-TinyDigits.
PyFloatNear(i, t) == [ k |-> "float", n |-> i, t |-> t, e |-> << >> ]
PyChr(c) == [ k |-> "chr", n |-> c, t |-> 0, e |-> << >> ]
\* A string over character codes; its members are its characters.
PyStr(codes) ==
    [ k |-> "str", n |-> 0, t |-> 0,
      e |-> [ i \in 1..Len(codes) |-> PyChr(codes[i]) ] ]
PyList(items) == [ k |-> "list", n |-> 0, t |-> 0, e |-> items ]
PyTuple(items) == [ k |-> "tuple", n |-> 0, t |-> 0, e |-> items ]

PyTrue == PyBool(TRUE)
PyFalse == PyBool(FALSE)

\* isinstance( value, ( int, float ) ): bool is a subclass of int.
IsNumber(v) == v.k \in { "bool", "int", "float" }
\* a <= b for numbers: the fine part never amounts to a whole unit.
NumLeq(a, b) == a.n < b.n \/ (a.n = b.n /\ a.t <= b.t)
\* isinstance( value, collections.abc.Sequence ): str is a Sequence too.
IsSequence(v) == v.k \in { "str", "list", "tuple" }
\* len( value )
PyLen(v) == Len(v.e)
\* Iteration over a sequence: a str yields one-character strs.
Items(v) ==
    IF v.k = "str"
    THEN [ i \in 1..Len(v.e) |->
             [ k |-> "str", n |-> 0, t |-> 0, e |-> << v.e[i] >> ] ]
    ELSE v.e

\* Python ==: numbers compare by numeric value across bool/int/float,
\* sequences of the same kind compare memberwise.
RECURSIVE PyEq(_, _)
PyEq(a, b) ==
    IF IsNumber(a) /\ IsNumber(b) THEN a.n = b.n /\ a.t = b.t
    ELSE /\ a.k = b.k
         /\ a.n = b.n
         /\ a.t = b.t
         /\ Len(a.e) = Len(b.e)
         /\ \A i \in 1..Len(a.e) : PyEq(a.e[i], b.e[i])

\* value in sequence
PyIn(v, items) == \E i \in 1..Len(items) : PyEq(v, items[i])
\* len( set( items ) ) for hashable items
DistinctCount(items) ==
    Cardinality({ i \in 1..Len(items) :
        \A j \in 1..(i - 1) : ~PyEq(items[j], items[i]) })
\* sequence.index( value ): position (0-based) of the first equal member
PyIndex(items, v) ==
    (CHOOSE i \in 1..Len(items) :
        /\ PyEq(items[i], v)
        /\ \A j \in 1..(i - 1) : ~PyEq(items[j], v)) - 1

(***************************************************************************)
(* Exceptions: class, carried index (-1 when none) and wrapped cause.      *)
(***************************************************************************)
Error(class) == [ class |-> class, index |-> -1, cause |-> << >> ]
\* Faulty variant: the cause of a nested failure is flattened into the
\* outer exception.
ElementErrorFlattened(index, cause) ==
    [ class |-> "ElementInvalidity", index |-> index,
      cause |-> IF cause.class = "ElementInvalidity" THEN cause.cause
                ELSE << cause >> ]

\* raise ElementInvalidity( index = index, cause = exception ) from exception
ElementError(index, cause) ==
    [ class |-> "ElementInvalidity", index |-> index, cause |-> << cause >> ]
NoError == Error("none")

\* Subclasses of ConstraintViolation.
ConstraintViolationClasses ==
    { "ConstraintViolation", "SizeConstraintViolation",
      "BoundsConstraintViolation", "StepConstraintViolation",
      "UniquenessConstraintViolation", "SelectionConstraintViolation",
      "IndexOutOfRange", "InvalidPermutation" }
\* Subclasses of ControlInvalidity (itself included).
ControlInvalidityClasses ==
    { "ControlInvalidity", "TypeInvalidity", "ElementInvalidity" }
        \cup ConstraintViolationClasses
IsControlInvalidity(error) == error.class \in ControlInvalidityClasses

\* Outcome of a call: a returned value or a raised exception.
Return(value) == [ ok |-> TRUE, error |-> NoError, value |-> value ]
Raise(error) == [ ok |-> FALSE, error |-> error, value |-> PyNone ]

(***************************************************************************)
(* Definitions.  A Definition is a record whose type field names its       *)
(* class; hints and messages are inert metadata and are left out.          *)
(***************************************************************************)
NoDefinition == [ type |-> "none" ]
BooleanDefinition(default) == [ type |-> "Boolean", default |-> default ]
TextDefinition(default, count_min, count_max) ==
    [ type |-> "Text", default |-> default,
      count_min |-> count_min, count_max |-> count_max ]
IntervalDefinition(minimum, maximum, default, grade) ==
    [ type |-> "Interval", minimum |-> minimum, maximum |-> maximum,
      default |-> default, grade |-> grade ]
OptionsDefinition(choices, default, allow_multiple) ==
    [ type |-> "Options", choices |-> choices, default |-> default,
      allow_multiple |-> allow_multiple ]
ArrayDefinition(element_definition, size_min, size_max, default_elements, allow_duplicates) ==
    [ type |-> "Array", element_definition |-> element_definition,
      size_min |-> size_min, size_max |-> size_max,
      default_elements |-> default_elements,
      allow_duplicates |-> allow_duplicates ]

(***************************************************************************)
(* validate_value                                                          *)
(***************************************************************************)
\* Faulty variant: a value equal to True or False is accepted.
BooleanValidateByEquality(d, value) ==
    IF PyEq(value, PyTrue) \/ PyEq(value, PyFalse)
    THEN Return(value)
    ELSE Raise(Error("ControlInvalidity"))

BooleanValidate(d, value) ==
    IF value.k # "bool"
    THEN Raise(Error("ControlInvalidity"))
    ELSE Return(value)

\* Faulty variant: count_max is taken as an exclusive bound.
TextValidateExclusiveMax(d, value) ==
    IF value.k # "str"
    THEN Raise(Error("ControlInvalidity"))
    ELSE LET count == PyLen(value) IN
         IF d.count_min.k # "none" /\ count < d.count_min.n
         THEN Raise(Error("SizeConstraintViolation"))
         ELSE IF d.count_max.k # "none" /\ count >= d.count_max.n
         THEN Raise(Error("SizeConstraintViolation"))
         ELSE Return(value)

TextValidate(d, value) ==
    IF value.k # "str"
    THEN Raise(Error("ControlInvalidity"))
    ELSE LET count == PyLen(value) IN
         IF d.count_min.k # "none" /\ count < d.count_min.n
         THEN Raise(Error("SizeConstraintViolation"))
         ELSE IF d.count_max.k # "none" /\ count > d.count_max.n
         THEN Raise(Error("SizeConstraintViolation"))
         ELSE Return(value)

\* Exponent of _FLOAT_EPSILON = 1e-10.
FloatEpsilonDigits == 10

\* p / g < 10 ^ -digits, for p >= 0 and g > 0, without forming 10 ^ digits.
RECURSIVE BelowEpsilon(_, _, _)
BelowEpsilon(p, g, digits) ==
    IF digits = 0 THEN p < g
    ELSE IF p = 0 THEN TRUE
    ELSE IF p * 10 >= g THEN FALSE
    ELSE BelowEpsilon(p * 10, g, digits - 1)

\* Faulty variant: the step check accepts every value.
StepAlignedAlways(value, minimum, grade) == TRUE

\* Digits of the fine part of a number: one more than the tolerance has,
\* so that distances on both sides of the tolerance can be written.
TinyDigits == FloatEpsilonDigits + 1

\* abs( steps - round( steps ) ) < _FLOAT_EPSILON, where
\* steps = ( value - minimum ) / grade.  The distance of value - minimum
\* from the nearest whole number of grades is whole + fine * 10^-TinyDigits;
\* the grade is a whole number below 10^FloatEpsilonDigits, so a distance
\* with a whole part is never below the tolerance.
StepAligned(value, minimum, grade) ==
    LET r == (value.n - minimum.n) % grade.n
        whole == IF r <= grade.n - r THEN r ELSE grade.n - r
        offset == value.t - minimum.t
        fine == IF offset < 0 THEN -offset ELSE offset
    IN  IF whole = 0
        THEN fine < 10 ^ (TinyDigits - FloatEpsilonDigits) * grade.n
        ELSE BelowEpsilon(whole, grade.n, FloatEpsilonDigits)

\* Faulty variant: the step is checked before the bounds.
IntervalValidateStepFirst(d, value) ==
    IF ~IsNumber(value)
    THEN Raise(Error("ControlInvalidity"))
    ELSE IF d.grade.k # "none" /\ ~StepAligned(value, d.minimum, d.grade)
    THEN Raise(Error("StepConstraintViolation"))
    ELSE IF ~(NumLeq(d.minimum, value) /\ NumLeq(value, d.maximum))
    THEN Raise(Error("BoundsConstraintViolation"))
    ELSE Return(PyFloatNear(value.n, value.t))

IntervalValidate(d, value) ==
    IF ~IsNumber(value)
    THEN Raise(Error("ControlInvalidity"))
    ELSE IF ~(NumLeq(d.minimum, value) /\ NumLeq(value, d.maximum))
    THEN Raise(Error("BoundsConstraintViolation"))
    ELSE IF d.grade.k # "none" /\ ~StepAligned(value, d.minimum, d.grade)
    THEN Raise(Error("StepConstraintViolation"))
    ELSE Return(PyFloatNear(value.n, value.t))

\* Faulty variant: repeats are looked for before membership.
OptionsValidateUniquenessFirst(d, value) ==
    IF d.allow_multiple
    THEN IF ~IsSequence(value)
         THEN Raise(Error("TypeInvalidity"))
         ELSE LET sequence_value == Items(value) IN
              IF Len(sequence_value) = 0
              THEN Raise(Error("SizeConstraintViolation"))
              ELSE IF Len(sequence_value) # DistinctCount(sequence_value)
              THEN Raise(Error("UniquenessConstraintViolation"))
              ELSE IF \E i \in 1..Len(sequence_value) :
                          ~PyIn(sequence_value[i], d.choices.e)
              THEN Raise(Error("SelectionConstraintViolation"))
              ELSE Return(PyTuple(sequence_value))
    ELSE IF ~PyIn(value, d.choices.e)
         THEN Raise(Error("ControlInvalidity"))
         ELSE Return(value)

\* Faulty variant: a multi-select value must be a list; other sequences,
\* tuples among them, are rejected.
OptionsValidateListsOnly(d, value) ==
    IF d.allow_multiple
    THEN IF value.k # "list"
         THEN Raise(Error("TypeInvalidity"))
         ELSE LET sequence_value == Items(value) IN
              IF Len(sequence_value) = 0
              THEN Raise(Error("SizeConstraintViolation"))
              ELSE IF \E i \in 1..Len(sequence_value) :
                          ~PyIn(sequence_value[i], d.choices.e)
              THEN Raise(Error("SelectionConstraintViolation"))
              ELSE IF Len(sequence_value) # DistinctCount(sequence_value)
              THEN Raise(Error("UniquenessConstraintViolation"))
              ELSE Return(PyTuple(sequence_value))
    ELSE IF ~PyIn(value, d.choices.e)
         THEN Raise(Error("ControlInvalidity"))
         ELSE Return(value)

OptionsValidate(d, value) ==
    IF d.allow_multiple
    THEN IF ~IsSequence(value)
         THEN Raise(Error("TypeInvalidity"))
         ELSE LET sequence_value == Items(value) IN
              IF Len(sequence_value) = 0
              THEN Raise(Error("SizeConstraintViolation"))
              ELSE IF \E i \in 1..Len(sequence_value) :
                          ~PyIn(sequence_value[i], d.choices.e)
              THEN Raise(Error("SelectionConstraintViolation"))
              ELSE IF Len(sequence_value) # DistinctCount(sequence_value)
              THEN Raise(Error("UniquenessConstraintViolation"))
              ELSE Return(PyTuple(sequence_value))
    ELSE IF ~PyIn(value, d.choices.e)
         THEN Raise(Error("ControlInvalidity"))
         ELSE Return(value)

\* Faulty variant: size_max is compared off by one.
ExceedsSizeMaxOffByOne(d, size) ==
    d.size_max.k # "none" /\ size > d.size_max.n + 1

\* self.size_max is not None and size > self.size_max
ExceedsSizeMax(d, size) == d.size_max.k # "none" /\ size > d.size_max.n

RECURSIVE validate_value(_, _)

\* Faulty variant: the elements are validated before the size is compared.
ArrayValidateElementsFirst(d, value) ==
    IF ~IsSequence(value)
    THEN Raise(Error("TypeInvalidity"))
    ELSE
      LET sequence_value == Items(value)
          size == Len(sequence_value)
          each == [ i \in 1..size |->
                      validate_value(d.element_definition, sequence_value[i]) ]
          validated_elements == [ i \in 1..size |-> each[i].value ]
          invalid == { i \in 1..size : ~each[i].ok }
          repeated == { i \in 1..size :
                          \E j \in 1..(i - 1) :
                              PyEq(validated_elements[j],
                                   validated_elements[i]) }
          first(S) == CHOOSE i \in S : \A j \in S : i <= j
      IN
      IF invalid # { }
      THEN Raise(ElementError(first(invalid) - 1, each[first(invalid)].error))
      ELSE IF size < d.size_min.n
      THEN Raise(Error("SizeConstraintViolation"))
      ELSE IF ExceedsSizeMax(d, size)
      THEN Raise(Error("SizeConstraintViolation"))
      ELSE IF ~d.allow_duplicates /\ repeated # { }
      THEN Raise([ Error("UniquenessConstraintViolation")
                     EXCEPT !.index = first(repeated) - 1 ])
      ELSE Return(PyTuple(validated_elements))

\* Faulty variant: only neighbouring elements are compared for duplicates.
ArrayValidateNeighbourDuplicates(d, value) ==
    IF ~IsSequence(value)
    THEN Raise(Error("TypeInvalidity"))
    ELSE
      LET sequence_value == Items(value)
          size == Len(sequence_value)
          each == [ i \in 1..size |->
                      validate_value(d.element_definition, sequence_value[i]) ]
          validated_elements == [ i \in 1..size |-> each[i].value ]
          invalid == { i \in 1..size : ~each[i].ok }
          repeated == { i \in 2..size :
                          PyEq(validated_elements[i - 1],
                               validated_elements[i]) }
          first(S) == CHOOSE i \in S : \A j \in S : i <= j
      IN
      IF size < d.size_min.n
      THEN Raise(Error("SizeConstraintViolation"))
      ELSE IF ExceedsSizeMax(d, size)
      THEN Raise(Error("SizeConstraintViolation"))
      ELSE IF invalid # { }
      THEN Raise(ElementError(first(invalid) - 1, each[first(invalid)].error))
      ELSE IF ~d.allow_duplicates /\ repeated # { }
      THEN Raise([ Error("UniquenessConstraintViolation")
                     EXCEPT !.index = first(repeated) - 1 ])
      ELSE Return(PyTuple(validated_elements))

ArrayValidate(d, value) ==
    IF ~IsSequence(value)
    THEN Raise(Error("TypeInvalidity"))
    ELSE
      LET sequence_value == Items(value)
          size == Len(sequence_value)
          each == [ i \in 1..size |->
                      validate_value(d.element_definition, sequence_value[i]) ]
          validated_elements == [ i \in 1..size |-> each[i].value ]
          invalid == { i \in 1..size : ~each[i].ok }
          repeated == { i \in 1..size :
                          \E j \in 1..(i - 1) :
                              PyEq(validated_elements[j],
                                   validated_elements[i]) }
          first(S) == CHOOSE i \in S : \A j \in S : i <= j
      IN
      IF size < d.size_min.n
      THEN Raise(Error("SizeConstraintViolation"))
      ELSE IF ExceedsSizeMax(d, size)
      THEN Raise(Error("SizeConstraintViolation"))
      ELSE IF invalid # { }
      THEN Raise(ElementError(first(invalid) - 1, each[first(invalid)].error))
      ELSE IF ~d.allow_duplicates /\ repeated # { }
      THEN Raise([ Error("UniquenessConstraintViolation")
                     EXCEPT !.index = first(repeated) - 1 ])
      ELSE Return(PyTuple(validated_elements))

validate_value(d, value) ==
    CASE d.type = "Boolean" -> BooleanValidate(d, value)
      [] d.type = "Text" -> TextValidate(d, value)
      [] d.type = "Interval" -> IntervalValidate(d, value)
      [] d.type = "Options" -> OptionsValidate(d, value)
      [] d.type = "Array" -> ArrayValidate(d, value)

(***************************************************************************)
(* __post_init__: the checks a Definition's construction runs.  The result *)
(* is the constructed (normalized) Definition or the exception raised.     *)
(***************************************************************************)
DefinitionInvalidity == Error("DefinitionInvalidity")

\* except ControlInvalidity as exception: raise DefinitionInvalidity
DefaultChecked(d, default) ==
    LET checked == validate_value(d, default) IN
    IF checked.ok THEN Return(d)
    ELSE IF IsControlInvalidity(checked.error)
    THEN Raise([ DefinitionInvalidity EXCEPT !.cause = << checked.error >> ])
    ELSE Raise(checked.error)

\* BooleanDefinition declares no __post_init__.
BooleanPostInit(d) == Return(d)

TextPostInit(d) ==
    IF d.count_min.k # "none" /\ d.count_min.n < 0
    THEN Raise(DefinitionInvalidity)
    ELSE IF d.count_max.k # "none" /\ d.count_max.n < 0
    THEN Raise(DefinitionInvalidity)
    ELSE IF /\ d.count_min.k # "none"
            /\ d.count_max.k # "none"
            /\ d.count_min.n > d.count_max.n
    THEN Raise(DefinitionInvalidity)
    ELSE Return(d)

\* Faulty variant: the default is checked against the minimum only.
IntervalPostInitWithoutUpperCheck(d) ==
    IF ~IsNumber(d.minimum) THEN Raise(DefinitionInvalidity)
    ELSE IF ~IsNumber(d.maximum) THEN Raise(DefinitionInvalidity)
    ELSE IF ~NumLeq(d.minimum, d.maximum) THEN Raise(DefinitionInvalidity)
    ELSE IF ~IsNumber(d.default) THEN Raise(DefinitionInvalidity)
    ELSE IF ~NumLeq(d.minimum, d.default) THEN Raise(DefinitionInvalidity)
    ELSE IF d.grade.k # "none" /\ ~IsNumber(d.grade)
    THEN Raise(DefinitionInvalidity)
    ELSE IF d.grade.k # "none" /\ NumLeq(d.grade, PyInt(0))
    THEN Raise(DefinitionInvalidity)
    ELSE Return(d)

IntervalPostInit(d) ==
    IF ~IsNumber(d.minimum) THEN Raise(DefinitionInvalidity)
    ELSE IF ~IsNumber(d.maximum) THEN Raise(DefinitionInvalidity)
    ELSE IF ~NumLeq(d.minimum, d.maximum) THEN Raise(DefinitionInvalidity)
    ELSE IF ~IsNumber(d.default) THEN Raise(DefinitionInvalidity)
    ELSE IF ~(NumLeq(d.minimum, d.default) /\ NumLeq(d.default, d.maximum))
    THEN Raise(DefinitionInvalidity)
    ELSE IF d.grade.k # "none" /\ ~IsNumber(d.grade)
    THEN Raise(DefinitionInvalidity)
    ELSE IF d.grade.k # "none" /\ NumLeq(d.grade, PyInt(0))
    THEN Raise(DefinitionInvalidity)
    ELSE Return(d)

OptionsPostInit(d) ==
    IF PyLen(d.choices) = 0
    THEN Raise(DefinitionInvalidity)
    ELSE LET normalized == [ d EXCEPT !.choices = PyTuple(Items(d.choices)) ]
         IN  IF PyLen(normalized.choices) # DistinctCount(normalized.choices.e)
             THEN Raise(DefinitionInvalidity)
             ELSE DefaultChecked(normalized, normalized.default)

ArrayPostInit(d) ==
    IF d.size_min.n < 0
    THEN Raise(DefinitionInvalidity)
    ELSE IF d.size_max.k # "none" /\ d.size_max.n < 0
    THEN Raise(DefinitionInvalidity)
    ELSE IF d.size_max.k # "none" /\ d.size_min.n > d.size_max.n
    THEN Raise(DefinitionInvalidity)
    ELSE LET normalized ==
                 [ d EXCEPT !.default_elements =
                                PyTuple(Items(d.default_elements)) ]
         IN  DefaultChecked(normalized, normalized.default_elements)

(***************************************************************************)
(* produce_default and produce_control.                                    *)
(***************************************************************************)
\* The sentinel of an omitted argument.
Absent == [ k |-> "absent", n |-> 0, t |-> 0, e |-> << >> ]

Control(d, current) == [ definition |-> d, current |-> current ]

produce_default(d) ==
    CASE d.type \in { "Boolean", "Text", "Interval" } -> Return(d.default)
      [] d.type = "Options" -> validate_value(d, d.default)
      [] d.type = "Array" -> validate_value(d, d.default_elements)

\* The value produce_control holds in validated: with initial absent,
\* Boolean, Text and Interval take self.default as it is, Options and Array
\* validate it; a given initial is validated.
ProduceValidated(d, initial) ==
    IF initial.k # "absent"
    THEN validate_value(d, initial)
    ELSE CASE d.type \in { "Boolean", "Text", "Interval" } ->
                  Return(d.default)
           [] d.type = "Options" -> validate_value(d, d.default)
           [] d.type = "Array" -> validate_value(d, d.default_elements)

\* Faulty variant: the raw initial is held, not the
\* validated value.
ProduceControlHoldingRaw(d, initial) ==
    LET validated == ProduceValidated(d, initial) IN
    IF validated.ok
    THEN Return(Control(d, IF initial.k # "absent" THEN initial
                           ELSE validated.value))
    ELSE Raise(validated.error)

produce_control(d, initial) ==
    LET validated == ProduceValidated(d, initial) IN
    IF validated.ok
    THEN Return(Control(d, validated.value))
    ELSE Raise(validated.error)

(***************************************************************************)
(* serialize_value and serialize.                                          *)
(***************************************************************************)
RECURSIVE serialize_value(_, _)

\* Faulty variant: an Array is listed without serializing its elements.
SerializeValueShallow(d, value) ==
    CASE d.type \in { "Boolean", "Text", "Interval" } -> value
      [] d.type = "Options" ->
            IF d.allow_multiple THEN PyList(Items(value)) ELSE value
      [] d.type = "Array" -> PyList(Items(value))

\* Boolean, Text, Interval and single-select Options: return value;
\* multi-select Options: list( value ); Array: the list of the elements
\* serialized by the element definition.
serialize_value(d, value) ==
    CASE d.type \in { "Boolean", "Text", "Interval" } -> value
      [] d.type = "Options" ->
            IF d.allow_multiple THEN PyList(Items(value)) ELSE value
      [] d.type = "Array" ->
            PyList([ i \in 1..Len(Items(value)) |->
                       serialize_value(d.element_definition,
                                       Items(value)[i]) ])

\* Faulty variant: the held value is returned as it is.
SerializeHeldValue(c) == c.current

\* return self.definition.serialize_value( self.current )
serialize(c) == serialize_value(c.definition, c.current)

(***************************************************************************)
(* Transition operations of the Control types.  Each returns the outcome   *)
(* of the call on receiver c: a new Control or the exception raised.       *)
(***************************************************************************)
\* Faulty variant: a rejected value is reported the way __post_init__
\* reports a rejected default.
CopyBlamingDefinition(c, value) ==
    LET validated == validate_value(c.definition, value) IN
    IF validated.ok
    THEN Return(Control(c.definition, validated.value))
    ELSE Raise(DefinitionInvalidity)

copy(c, value) ==
    LET validated == validate_value(c.definition, value) IN
    IF validated.ok
    THEN Return(Control(c.definition, validated.value))
    ELSE Raise(validated.error)

\* bool( value )
Truthy(v) ==
    CASE IsNumber(v) -> v.n # 0 \/ v.t # 0
      [] IsSequence(v) -> PyLen(v) # 0
      [] OTHER -> FALSE

\* Faulty variant: the held value is converted to a boolean but not negated.
ToggleWithoutNegation(c) == copy(c, PyBool(Truthy(c.current)))

\* return self.copy( not self.current )
toggle(c) == copy(c, PyBool(~Truthy(c.current)))

\* Faulty variant: clearing skips validation.
ClearUnvalidated(c) == Return(Control(c.definition, PyStr(<< >>)))

\* return self.copy( '' )
clear(c) == copy(c, PyStr(<< >>))

\* Kind of the sum or difference of two numbers.
ArithmeticKind(a, b) ==
    IF a.k = "float" \/ b.k = "float" THEN "float" ELSE "int"

increment(c) ==
    IF c.definition.grade.k = "none"
    THEN Raise(Error("IncrementOperationFailure"))
    ELSE copy(c, [ k |-> ArithmeticKind(c.current, c.definition.grade),
                   n |-> c.current.n + c.definition.grade.n,
                   t |-> c.current.t + c.definition.grade.t,
                   e |-> << >> ])

decrement(c) ==
    IF c.definition.grade.k = "none"
    THEN Raise(Error("IncrementOperationFailure"))
    ELSE copy(c, [ k |-> ArithmeticKind(c.current, c.definition.grade),
                   n |-> c.current.n - c.definition.grade.n,
                   t |-> c.current.t - c.definition.grade.t,
                   e |-> << >> ])

\* Faulty variant: the index stops at the last choice
\* instead of wrapping to the first.
CycleNextWithoutWrap(c) ==
    LET choices == c.definition.choices.e
        index == PyIndex(choices, c.current) + 1
    IN
    IF c.definition.allow_multiple
    THEN Raise(Error("CycleOperationFailure"))
    ELSE IF ~PyIn(c.current, choices)
    THEN Raise(Error("ValueError"))
    ELSE copy(c, choices[IF index < Len(choices) THEN index + 1
                         ELSE Len(choices)])

cycle_next(c) ==
    LET choices == c.definition.choices.e IN
    IF c.definition.allow_multiple
    THEN Raise(Error("CycleOperationFailure"))
    ELSE IF ~PyIn(c.current, choices)
    THEN Raise(Error("ValueError"))
    ELSE copy(c, choices[((PyIndex(choices, c.current) + 1)
                              % Len(choices)) + 1])

\* Faulty variant: the multi-select test is missing, so the held tuple is
\* looked up among the choices.
CyclePreviousUnguarded(c) ==
    LET choices == c.definition.choices.e IN
    IF ~PyIn(c.current, choices)
    THEN Raise(Error("ValueError"))
    ELSE copy(c, choices[((PyIndex(choices, c.current) - 1)
                              % Len(choices)) + 1])

\* Faulty variant: cycle_previous stays on the first choice instead of
\* wrapping to the last.
CyclePreviousWithoutWrap(c) ==
    LET choices == c.definition.choices.e
        index == PyIndex(choices, c.current)
    IN
    IF c.definition.allow_multiple
    THEN Raise(Error("CycleOperationFailure"))
    ELSE IF ~PyIn(c.current, choices)
    THEN Raise(Error("ValueError"))
    ELSE copy(c, choices[IF index > 0 THEN index ELSE 1])

cycle_previous(c) ==
    LET choices == c.definition.choices.e IN
    IF c.definition.allow_multiple
    THEN Raise(Error("CycleOperationFailure"))
    ELSE IF ~PyIn(c.current, choices)
    THEN Raise(Error("ValueError"))
    ELSE copy(c, choices[((PyIndex(choices, c.current) - 1)
                              % Len(choices)) + 1])

append(c, element) == copy(c, PyTuple(Append(c.current.e, element)))

remove_at(c, index) ==
    LET current == c.current.e IN
    IF ~(0 <= index /\ index < Len(current))
    THEN Raise([ Error("IndexOutOfRange") EXCEPT !.index = index ])
    ELSE copy(c, PyTuple(SubSeq(current, 1, index)
                           \o SubSeq(current, index + 2, Len(current))))

\* Faulty variant: a negative index counts from the end, as in list.insert.
InsertAtCountingFromEnd(c, index, element) ==
    LET current == c.current.e
        position == IF index < 0 THEN index + Len(current) ELSE index
    IN
    IF ~(0 <= position /\ position <= Len(current))
    THEN Raise([ Error("IndexOutOfRange") EXCEPT !.index = index ])
    ELSE copy(c, PyTuple(SubSeq(current, 1, position) \o << element >>
                           \o SubSeq(current, position + 1, Len(current))))

insert_at(c, index, element) ==
    LET current == c.current.e IN
    IF ~(0 <= index /\ index <= Len(current))
    THEN Raise([ Error("IndexOutOfRange") EXCEPT !.index = index ])
    ELSE copy(c, PyTuple(SubSeq(current, 1, index) \o << element >>
                           \o SubSeq(current, index + 1, Len(current))))

\* Faulty variant: only the range of the indices is checked,
\* so a repeated index passes.
IndicesInRange(order, length) ==
    \A i \in 1..Len(order) :
        IsNumber(order[i]) /\ order[i].t = 0
            /\ order[i].n \in 0..(length - 1)

\* set( new_order ) != set( range( len( current ) ) )
IsPermutationSet(order, length) ==
    /\ \A i \in 1..Len(order) :
           IsNumber(order[i]) /\ order[i].t = 0
               /\ order[i].n \in 0..(length - 1)
    /\ \A j \in 0..(length - 1) : \E i \in 1..Len(order) : order[i].n = j

\* Faulty variant: the gather reads one position further.
ReorderShifted(c, new_order) ==
    LET current == c.current.e
        order == Items(new_order)
    IN
    IF Len(order) # Len(current)
    THEN Raise(Error("InvalidPermutation"))
    ELSE IF ~IsPermutationSet(order, Len(current))
    THEN Raise(Error("InvalidPermutation"))
    ELSE copy(c, PyTuple([ i \in 1..Len(order) |->
                             current[((order[i].n + 1) % Len(current)) + 1] ]))

\* Faulty variant: the gather stops one position early.
ReorderDroppingLast(c, new_order) ==
    LET current == c.current.e
        order == Items(new_order)
    IN
    IF Len(order) # Len(current)
    THEN Raise(Error("InvalidPermutation"))
    ELSE IF ~IsPermutationSet(order, Len(current))
    THEN Raise(Error("InvalidPermutation"))
    ELSE copy(c, PyTuple([ i \in 1..(Len(order) - 1) |->
                             current[order[i].n + 1] ]))

reorder(c, new_order) ==
    LET current == c.current.e
        order == Items(new_order)
    IN
    IF Len(order) # Len(current)
    THEN Raise(Error("InvalidPermutation"))
    ELSE IF ~IsPermutationSet(order, Len(current))
    THEN Raise(Error("InvalidPermutation"))
    ELSE IF \E i \in 1..Len(order) : order[i].k = "float"
    THEN Raise(Error("TypeError"))  \* a tuple index must be an integer
    ELSE copy(c, PyTuple([ i \in 1..Len(order) |-> current[order[i].n + 1] ]))

(***************************************************************************)
(* Inputs the callers draw from.                                           *)
(***************************************************************************)
\* Strings "", "a", "ab", "abc" (characters are codes 1, 2, 3).
Strings == { PyStr(<< >>), PyStr(<< 1 >>), PyStr(<< 1, 2 >>),
             PyStr(<< 1, 2, 3 >>) }

BooleanDefaults == { PyFalse, PyTrue, PyInt(1) }
BooleanInputs ==
    { PyTrue, PyFalse, PyInt(0), PyInt(1), PyNone, PyStr(<< 1, 2 >>),
      PyStr(<< >>), PyList(<< >>) }

TextDefaults == { PyStr(<< >>), PyStr(<< 1, 2 >>) }
TextCounts == { PyNone, PyInt(-1), PyInt(0), PyInt(1), PyInt(2) }
TextInputs == Strings \cup { PyInt(1) }

IntervalMinimums == { PyInt(0), PyInt(1), PyStr(<< 1 >>) }
IntervalMaximums == { PyInt(4), PyInt(0) }
IntervalDefaults == { PyInt(0), PyInt(1), PyInt(5), PyTrue }
IntervalGrades == { PyNone, PyInt(2), PyInt(0) }
\* Among them 2 + 1e-11 and 2 + 5e-10: off the steps of a grade of 2,
\* the first within the tolerance and the second beyond it.
IntervalInputs ==
    { PyInt(-1), PyInt(0), PyInt(2), PyInt(3), PyFloat(4), PyInt(5),
      PyTrue, PyStr(<< 1 >>), PyFloatNear(2, 1), PyFloatNear(2, 50) }

\* Choices "a", "b", "c" as one-character strings.
ChoiceA == PyStr(<< 1 >>)
ChoiceB == PyStr(<< 2 >>)
ChoiceC == PyStr(<< 3 >>)
OptionsChoices ==
    { PyList(<< >>), PyList(<< ChoiceA >>),
      PyList(<< ChoiceA, ChoiceB, ChoiceC >>),
      PyList(<< ChoiceA, ChoiceB, ChoiceA >>) }
OptionsDefaults ==
    { ChoiceA, ChoiceC, PyList(<< ChoiceA >>), PyList(<< ChoiceC, ChoiceA >>) }
OptionsInputs ==
    { ChoiceA, ChoiceB, ChoiceC, PyStr(<< 1, 2 >>), PyInt(1),
      PyList(<< >>), PyList(<< ChoiceB >>), PyList(<< ChoiceB, ChoiceB >>),
      PyList(<< ChoiceA, PyInt(1) >>), PyList(<< ChoiceB, ChoiceA >>),
      PyList(<< ChoiceB, ChoiceB, PyInt(1) >>) }

\* Element definitions an Array is built over: Boolean and an Array of
\* Boolean (nesting).
ElementDefinitions ==
    << BooleanDefinition(PyFalse),
       ArrayDefinition(BooleanDefinition(PyFalse), PyInt(0), PyInt(1),
                       PyTuple(<< >>), TRUE) >>
\* Raw elements offered to an Array over element definition ed: two valid
\* ones and two invalid ones.
ElementInputs(ed) ==
    CASE ed.type = "Boolean" -> << PyTrue, PyFalse, PyInt(1), PyNone >>
      [] ed.type = "Array" ->
            << PyList(<< >>), PyList(<< PyTrue >>),
               PyList(<< PyTrue, PyTrue >>), PyList(<< PyInt(1) >>) >>
\* Elements offered to append and insert_at: two valid ones, an invalid one.
ElementInputSet(ed) == { ElementInputs(ed)[i] : i \in 1..3 }
\* Raw sequences offered to an Array (x, y valid elements, z, w invalid).
ArrayInputs(ed) ==
    LET x == ElementInputs(ed)[1]
        y == ElementInputs(ed)[2]
        z == ElementInputs(ed)[3]
        w == ElementInputs(ed)[4]
    IN  { PyList(<< >>), PyList(<< x >>), PyList(<< x, y >>),
          PyList(<< y, y >>), PyList(<< x, y, x >>), PyList(<< x, z >>),
          PyList(<< z >>), PyList(<< w, z >>), PyNone }
ArraySizeMinimums == { PyInt(0), PyInt(2), PyInt(-1) }
ArraySizeMaximums == { PyNone, PyInt(2), PyInt(0) }
ArrayDefaults(ed) ==
    LET x == ElementInputs(ed)[1]
        z == ElementInputs(ed)[3]
    IN  { PyList(<< >>), PyList(<< x, x >>), PyList(<< z >>) }
Indices == -1..2
Orders ==
    { PyList(<< >>), PyList(<< PyInt(0) >>),
      PyList(<< PyInt(1), PyInt(0) >>),
      PyList(<< PyInt(0), PyInt(0) >>), PyList(<< PyInt(-1), PyInt(0) >>),
      PyList(<< PyInt(1), PyInt(2) >>),
      PyList(<< PyInt(2), PyInt(0), PyInt(1) >>),
      PyList(<< PyInt(0), PyInt(0), PyInt(1) >>) }

\* Raw values offered to validate_value, produce_control and copy.
InputsFor(d) ==
    CASE d.type = "Boolean" -> BooleanInputs
      [] d.type = "Text" -> TextInputs
      [] d.type = "Interval" -> IntervalInputs
      [] d.type = "Options" -> OptionsInputs
      [] d.type = "Array" -> ArrayInputs(d.element_definition)
      [] OTHER -> { }

(***************************************************************************)
(* State machine.  definition is the Definition the caller constructed,    *)
(* controls the Control instances alive (an instance is its position),     *)
(* outcome the last call: its operation, receiver, arguments and result.   *)
(***************************************************************************)
Call(op, receiver, arg, index, res, control) ==
    [ op |-> op, receiver |-> receiver, arg |-> arg, index |-> index,
      ok |-> res.ok, error |-> res.error, control |-> control,
      value |-> IF res.ok /\ control = 0 /\ op # "construct"
                THEN res.value ELSE PyNone ]

\* No call is pending: the caller has taken the last result.
NoCall == Call("none", 0, Absent, 0, Return(PyNone), 0)
Idle == outcome.op = "none"

\* Threads that share a Definition and a Control (used by SpecConcurrent;
\* a single caller makes the calls of Spec).
CallerIds == { "a", "b" }

\* A thread's call in progress: phase is "idle", "invoked" (nothing read
\* yet), "read" (self.current read) or "returned"; held are the Controls the
\* thread has a reference to.
Pending(phase, op, receiver, arg, index, current, res, control, held) ==
    [ phase |-> phase, op |-> op, receiver |-> receiver, arg |-> arg,
      index |-> index, current |-> current, ok |-> res.ok,
      error |-> res.error,
      value |-> IF res.ok /\ control = 0 THEN res.value ELSE PyNone,
      control |-> control, held |-> held ]
NoPending ==
    Pending("idle", "none", 0, Absent, 0, Absent, Return(PyNone), 0, { })

Init ==
    /\ definition = NoDefinition
    /\ controls = << >>
    /\ outcome = NoCall
    /\ callers = [ c \in CallerIds |-> NoPending ]

\* Definition( ... ): the dataclass constructor followed by __post_init__.
\* requested holds the arguments of the call.
Construct(requested, constructed) ==
    /\ Idle
    /\ definition = NoDefinition
    /\ definition' = IF constructed.ok THEN constructed.value ELSE definition
    /\ outcome' = Call("construct", 0, requested, 0, constructed, 0)
    /\ UNCHANGED << controls, callers >>

ConstructBoolean ==
    \E default \in BooleanDefaults :
        Construct(BooleanDefinition(default),
                  BooleanPostInit(BooleanDefinition(default)))

ConstructText ==
    \E default \in TextDefaults, count_min \in TextCounts,
       count_max \in TextCounts :
        Construct(TextDefinition(default, count_min, count_max),
                  TextPostInit(TextDefinition(default, count_min, count_max)))

ConstructInterval ==
    \E minimum \in IntervalMinimums, maximum \in IntervalMaximums,
       default \in IntervalDefaults, grade \in IntervalGrades :
        Construct(IntervalDefinition(minimum, maximum, default, grade),
                  IntervalPostInit(
                      IntervalDefinition(minimum, maximum, default, grade)))

ConstructOptions ==
    \E choices \in OptionsChoices, default \in OptionsDefaults,
       allow_multiple \in BOOLEAN :
        Construct(OptionsDefinition(choices, default, allow_multiple),
                  OptionsPostInit(
                      OptionsDefinition(choices, default, allow_multiple)))

ConstructArray ==
    \E e \in 1..Len(ElementDefinitions) :
        \E size_min \in ArraySizeMinimums, size_max \in ArraySizeMaximums,
           default_elements \in ArrayDefaults(ElementDefinitions[e]),
           allow_duplicates \in BOOLEAN :
            LET requested ==
                    ArrayDefinition(ElementDefinitions[e], size_min, size_max,
                                    default_elements, allow_duplicates)
            IN  Construct(requested, ArrayPostInit(requested))

\* A call of a Definition method that returns a value.
Query(op, arg, res) ==
    /\ Idle
    /\ definition # NoDefinition
    /\ outcome' = Call(op, 0, arg, 0, res, 0)
    /\ UNCHANGED << definition, controls, callers >>

ValidateValue ==
    \E value \in InputsFor(definition) :
        Query("validate_value", value, validate_value(definition, value))

ProduceDefault == Query("produce_default", Absent, produce_default(definition))

\* The validated values a caller holds: what validate_value returned for
\* the raw inputs it accepts.
ValidatedInputs(d) ==
    { validate_value(d, value).value :
        value \in { v \in InputsFor(d) : validate_value(d, v).ok } }

SerializeValue ==
    \E value \in ValidatedInputs(definition) :
        Query("serialize_value", value,
              Return(serialize_value(definition, value)))

Serialize ==
    \E r \in 1..Len(controls) :
        /\ Idle
        /\ outcome' = Call("serialize", r, Absent, 0,
                           Return(serialize(controls[r])), 0)
        /\ UNCHANGED << definition, controls, callers >>

\* Faulty variant: the receiver is updated in place as well.
StoreMutatingReceiver(heap, receiver, control) ==
    Append(IF receiver = 0 THEN heap
           ELSE [ heap EXCEPT ![receiver] = control ], control)

\* The constructor call that ends produce_control and copy: a new instance
\* is created; the receiver (0 when there is none) is left as it is.
Store(heap, receiver, control) == Append(heap, control)

\* A call that returns a new Control on success.
Produce(op, receiver, arg, index, res) ==
    /\ Idle
    /\ definition # NoDefinition
    /\ res.ok => Len(controls) < MaxControls
    /\ controls' = IF res.ok THEN Store(controls, receiver, res.value)
                   ELSE controls
    /\ outcome' = Call(op, receiver, arg, index, res,
                       IF res.ok THEN Len(controls) + 1 ELSE 0)
    /\ UNCHANGED << definition, callers >>

ProduceControl ==
    \E initial \in InputsFor(definition) \cup { Absent } :
        Produce("produce_control", 0, initial, 0,
                produce_control(definition, initial))

Receivers(type) ==
    { r \in 1..Len(controls) : controls[r].definition.type = type }

Copy ==
    \E r \in 1..Len(controls) :
        \E value \in InputsFor(controls[r].definition) :
            Produce("copy", r, value, 0, copy(controls[r], value))

Toggle ==
    \E r \in Receivers("Boolean") :
        Produce("toggle", r, Absent, 0, toggle(controls[r]))

Clear ==
    \E r \in Receivers("Text") :
        Produce("clear", r, Absent, 0, clear(controls[r]))

Increment ==
    \E r \in Receivers("Interval") :
        Produce("increment", r, Absent, 0, increment(controls[r]))

Decrement ==
    \E r \in Receivers("Interval") :
        Produce("decrement", r, Absent, 0, decrement(controls[r]))

CycleNext ==
    \E r \in Receivers("Options") :
        Produce("cycle_next", r, Absent, 0, cycle_next(controls[r]))

CyclePrevious ==
    \E r \in Receivers("Options") :
        Produce("cycle_previous", r, Absent, 0, cycle_previous(controls[r]))

AppendElement ==
    \E r \in Receivers("Array") :
        \E element \in
              ElementInputSet(controls[r].definition.element_definition) :
            Produce("append", r, element, 0, append(controls[r], element))

RemoveAt ==
    \E r \in Receivers("Array"), index \in Indices :
        Produce("remove_at", r, Absent, index, remove_at(controls[r], index))

InsertAt ==
    \E r \in Receivers("Array"), index \in Indices :
        \E element \in
              ElementInputSet(controls[r].definition.element_definition) :
            Produce("insert_at", r, element, index,
                    insert_at(controls[r], index, element))

Reorder ==
    \E r \in Receivers("Array"), new_order \in Orders :
        Produce("reorder", r, new_order, 0, reorder(controls[r], new_order))

\* The caller takes the result (or catches the exception) of the last call.
Resume ==
    /\ ~Idle
    /\ outcome' = NoCall
    /\ UNCHANGED << definition, controls, callers >>

Next ==
    \/ ConstructBoolean
    \/ ConstructText
    \/ ConstructInterval
    \/ ConstructOptions
    \/ ConstructArray
    \/ ValidateValue
    \/ ProduceDefault
    \/ SerializeValue
    \/ Serialize
    \/ ProduceControl
    \/ Copy
    \/ Toggle
    \/ Clear
    \/ Increment
    \/ Decrement
    \/ CycleNext
    \/ CyclePrevious
    \/ AppendElement
    \/ RemoveAt
    \/ InsertAt
    \/ Reorder
    \/ Resume

Spec == Init /\ [][Next]_vars

(***************************************************************************)
(* Concurrent callers.  Several threads share one constructed Definition   *)
(* and the Control produced from it (controls[1]).  A call takes three     *)
(* steps, between which the other threads run: the call is made, the       *)
(* method reads self.current, then it reads self.definition, validates     *)
(* and constructs the new Control (or returns the value).                  *)
(***************************************************************************)
\* Definitions the threads share, each accepted by its __post_init__.
SharedDefinitions ==
    { constructed.value : constructed \in
        { c \in { BooleanPostInit(BooleanDefinition(PyFalse)),
                  TextPostInit(TextDefinition(PyStr(<< 1, 2 >>), PyInt(1),
                                              PyInt(2))),
                  IntervalPostInit(IntervalDefinition(PyInt(0), PyInt(4),
                                                      PyInt(0), PyInt(2))),
                  OptionsPostInit(OptionsDefinition(
                      PyList(<< ChoiceA, ChoiceB, ChoiceC >>), ChoiceA,
                      FALSE)),
                  ArrayPostInit(ArrayDefinition(ElementDefinitions[1],
                      PyInt(0), PyInt(2), PyList(<< >>), FALSE)) } : c.ok } }

\* Raw values the threads pass: one the Definition accepts, one it rejects.
SharedInputs(d) ==
    CASE d.type = "Boolean" -> { PyTrue, PyInt(1) }
      [] d.type = "Text" -> { PyStr(<< 1 >>), PyStr(<< >>) }
      [] d.type = "Interval" -> { PyInt(2), PyInt(3) }
      [] d.type = "Options" -> { ChoiceB, PyStr(<< 1, 2 >>) }
      [] d.type = "Array" ->
            { PyList(<< PyTrue, PyFalse >>), PyList(<< PyInt(1) >>) }

\* The calls (operation, argument, index) a thread may make on a Control
\* of Definition d; validate_value is made on the Definition itself.
CallsOn(d) ==
    { << op, value, 0 >> :
        op \in { "validate_value", "copy" }, value \in SharedInputs(d) }
    \cup { << "serialize", Absent, 0 >> }
    \cup CASE d.type = "Boolean" -> { << "toggle", Absent, 0 >> }
           [] d.type = "Text" -> { << "clear", Absent, 0 >> }
           [] d.type = "Interval" ->
                 { << "increment", Absent, 0 >>, << "decrement", Absent, 0 >> }
           [] d.type = "Options" ->
                 { << "cycle_next", Absent, 0 >>,
                   << "cycle_previous", Absent, 0 >> }
           [] d.type = "Array" ->
                 { << "append", PyTrue, 0 >>, << "insert_at", PyFalse, 0 >>,
                   << "remove_at", Absent, 0 >>,
                   << "reorder", PyList(<< PyInt(1), PyInt(0) >>), 0 >> }

\* The method op of Control c called with (arg, index).
Apply(op, c, arg, index) ==
    CASE op = "validate_value" -> validate_value(c.definition, arg)
      [] op = "serialize" -> Return(serialize(c))
      [] op = "copy" -> copy(c, arg)
      [] op = "toggle" -> toggle(c)
      [] op = "clear" -> clear(c)
      [] op = "increment" -> increment(c)
      [] op = "decrement" -> decrement(c)
      [] op = "cycle_next" -> cycle_next(c)
      [] op = "cycle_previous" -> cycle_previous(c)
      [] op = "append" -> append(c, arg)
      [] op = "insert_at" -> insert_at(c, index, arg)
      [] op = "remove_at" -> remove_at(c, index)
      [] op = "reorder" -> reorder(c, arg)

\* Operations that return a value, not a Control.
ValueOps == { "validate_value", "serialize" }

InitConcurrent ==
    /\ definition \in SharedDefinitions
    /\ controls = << produce_control(definition, Absent).value >>
    /\ outcome = NoCall
    /\ callers = [ c \in CallerIds |->
                     [ NoPending EXCEPT !.held = { 1 } ] ]

\* Thread c calls a method of a Control it holds.
Invoke(c) ==
    /\ callers[c].phase = "idle"
    /\ \E r \in callers[c].held :
         \E call \in CallsOn(controls[r].definition) :
            callers' = [ callers EXCEPT ![c] =
                Pending("invoked", call[1], r, call[2], call[3], Absent,
                        Return(PyNone), 0, callers[c].held) ]
    /\ UNCHANGED << definition, controls, outcome >>

\* The method reads self.current.
ReadCurrent(c) ==
    /\ callers[c].phase = "invoked"
    /\ callers' = [ callers EXCEPT
                      ![c].phase = "read",
                      ![c].current = controls[callers[c].receiver].current ]
    /\ UNCHANGED << definition, controls, outcome >>

\* The method reads self.definition, validates and returns: a transition
\* constructs the new Control.
Complete(c) ==
    LET call == callers[c]
        self == Control(controls[call.receiver].definition, call.current)
        res == Apply(call.op, self, call.arg, call.index)
        produced == res.ok /\ call.op \notin ValueOps
    IN  /\ call.phase = "read"
        /\ produced => Len(controls) <= MaxControls
        /\ controls' = IF produced
                       THEN Store(controls, call.receiver, res.value)
                       ELSE controls
        /\ callers' = [ callers EXCEPT ![c] =
                Pending("returned", call.op, call.receiver, call.arg,
                        call.index, call.current, res,
                        IF produced THEN Len(controls) + 1 ELSE 0,
                        call.held) ]
        /\ UNCHANGED << definition, outcome >>

\* The thread takes the result: it now holds the Control returned.
Take(c) ==
    /\ callers[c].phase = "returned"
    /\ callers' = [ callers EXCEPT ![c] =
            [ NoPending EXCEPT !.held =
                callers[c].held \cup
                    IF callers[c].control # 0 THEN { callers[c].control }
                    ELSE { } ] ]
    /\ UNCHANGED << definition, controls, outcome >>

NextConcurrent ==
    \/ \E c \in CallerIds : Invoke(c)
    \/ \E c \in CallerIds : ReadCurrent(c)
    \/ \E c \in CallerIds : Complete(c)
    \/ \E c \in CallerIds : Take(c)

SpecConcurrent == InitConcurrent /\ [][NextConcurrent]_vars

(***************************************************************************)
(* Properties.                                                             *)
(***************************************************************************)
TransitionOps ==
    { "copy", "toggle", "clear", "increment", "decrement", "cycle_next",
      "cycle_previous", "append", "insert_at", "remove_at", "reorder" }

\* The default a Definition was constructed with.
DefaultOf(d) == IF d.type = "Array" THEN d.default_elements ELSE d.default

\* The receiver and the returned Control of the last call.
Receiver == controls[outcome.receiver]
Returned == controls[outcome.control]

\* C1: every Control obtained from produce_control and any sequence of
\* successful transitions holds a current value that its own definition's
\* validate_value accepts.
ControlsHoldValidValues ==
    \A i \in 1..Len(controls) :
        validate_value(controls[i].definition, controls[i].current).ok

\* C2: a construction whose default fails the Definition's own
\* validate_value fails, and fails with DefinitionInvalidity; so no
\* constructed Definition has an invalid default.
DefaultValidAtConstruction ==
    /\ definition # NoDefinition =>
           validate_value(definition, DefaultOf(definition)).ok
    /\ (outcome.op = "construct" /\ ~outcome.ok) =>
           outcome.error.class = "DefinitionInvalidity"

\* C3: a transition operation, whether it succeeds or fails, leaves every
\* existing Control (the receiver among them) and the Definition as they
\* were; on success the returned Control is a new instance holding the
\* very Definition of the receiver.
TransitionsLeaveReceiver ==
    [][outcome'.op \in TransitionOps =>
          /\ definition' = definition
          /\ Len(controls') >= Len(controls)
          /\ \A i \in 1..Len(controls) : controls'[i] = controls[i]
          /\ outcome'.ok =>
                /\ outcome'.control = Len(controls) + 1
                /\ Len(controls') = Len(controls) + 1
                /\ controls'[outcome'.control].definition
                      = controls[outcome'.receiver].definition
          /\ ~outcome'.ok => controls' = controls]_vars

\* C3 witness: a transition returned a new Control whose value differs
\* from the one its receiver still holds.
TransitionReturnedNewControl ==
    /\ outcome.op \in TransitionOps
    /\ outcome.ok
    /\ outcome.control # outcome.receiver
    /\ Returned.current # Receiver.current

\* C4: produce_control(v) succeeds exactly when validate_value(v) does,
\* then holding a value equal to validate_value(v), and otherwise fails with
\* the same ControlInvalidity kind; produce_control() holds
\* produce_default().
ProduceControlAgreesWithValidate ==
    outcome.op = "produce_control" =>
        IF outcome.arg = Absent
        THEN /\ outcome.ok
             /\ produce_default(definition).ok
             /\ PyEq(Returned.current, produce_default(definition).value)
        ELSE LET validated == validate_value(definition, outcome.arg) IN
             /\ outcome.ok = validated.ok
             /\ validated.ok => PyEq(Returned.current, validated.value)
             /\ ~validated.ok =>
                    /\ outcome.error.class = validated.error.class
                    /\ IsControlInvalidity(outcome.error)

\* C4 witness: produce_control was given a raw value that validation
\* converts, and holds the converted value.
ProducedFromConvertedInitial ==
    /\ outcome.op = "produce_control"
    /\ outcome.ok
    /\ outcome.arg # Absent
    /\ Returned.current # outcome.arg

SizeWithinBounds(c) ==
    /\ c.definition.size_min.n <= PyLen(c.current)
    /\ \/ c.definition.size_max.k = "none"
       \/ PyLen(c.current) <= c.definition.size_max.n
AtSizeMax(c) ==
    /\ c.definition.size_max.k # "none"
    /\ PyLen(c.current) = c.definition.size_max.n
AtSizeMin(c) == PyLen(c.current) = c.definition.size_min.n
RaisedClass(class) == ~outcome.ok /\ outcome.error.class = class

\* C5 as stated: every Array control has size_min <= length <= size_max;
\* append and insert_at on an array at size_max, and remove_at on an array
\* at size_min, raise SizeConstraintViolation.
ArraySizeKeptAnyIndex ==
    /\ \A i \in 1..Len(controls) :
           controls[i].definition.type = "Array" =>
               SizeWithinBounds(controls[i])
    /\ (outcome.op \in { "append", "insert_at" } /\ AtSizeMax(Receiver)) =>
           RaisedClass("SizeConstraintViolation")
    /\ (outcome.op = "remove_at" /\ AtSizeMin(Receiver)) =>
           RaisedClass("SizeConstraintViolation")

\* C5 amended: every Array control has size_min <= length <= size_max;
\* append, and insert_at with an index in 0..length, on an array at
\* size_max, and remove_at with an index in 0..length-1 on an array at
\* size_min, raise SizeConstraintViolation.
ArraySizeKept ==
    /\ \A i \in 1..Len(controls) :
           controls[i].definition.type = "Array" =>
               SizeWithinBounds(controls[i])
    /\ (outcome.op = "append" /\ AtSizeMax(Receiver)) =>
           RaisedClass("SizeConstraintViolation")
    /\ ( /\ outcome.op = "insert_at"
         /\ AtSizeMax(Receiver)
         /\ outcome.index \in 0..PyLen(Receiver.current) ) =>
           RaisedClass("SizeConstraintViolation")
    /\ ( /\ outcome.op = "remove_at"
         /\ AtSizeMin(Receiver)
         /\ outcome.index \in 0..(PyLen(Receiver.current) - 1) ) =>
           RaisedClass("SizeConstraintViolation")

\* C5 witness: an insert_at within range on an array at size_max was
\* rejected for its size.
InsertRejectedAtSizeMax ==
    /\ outcome.op = "insert_at"
    /\ AtSizeMax(Receiver)
    /\ PyLen(Receiver.current) > 0
    /\ RaisedClass("SizeConstraintViolation")

\* C6: on an Interval control with a grade, increment returns
\* current + grade whenever that is <= maximum and otherwise fails with
\* BoundsConstraintViolation; decrement returns current - grade whenever
\* that is >= minimum and otherwise fails with BoundsConstraintViolation.
StepMovesByGradeOrFailsOnBounds ==
    ( /\ outcome.op \in { "increment", "decrement" }
      /\ Receiver.definition.grade.k # "none" ) =>
        LET d == Receiver.definition
            target == IF outcome.op = "increment"
                      THEN PyFloatNear(Receiver.current.n + d.grade.n,
                                       Receiver.current.t + d.grade.t)
                      ELSE PyFloatNear(Receiver.current.n - d.grade.n,
                                       Receiver.current.t - d.grade.t)
            inside == IF outcome.op = "increment"
                      THEN NumLeq(target, d.maximum)
                      ELSE NumLeq(d.minimum, target)
        IN  IF inside
            THEN outcome.ok /\ PyEq(Returned.current, target)
            ELSE RaisedClass("BoundsConstraintViolation")

\* C7 as stated: with a grade g, every Control returned by a successful
\* increment, decrement or copy holds a value in [minimum, maximum] that is
\* a whole number of steps of g above minimum: current - minimum is a
\* multiple of g.
GradedResultOnGrid ==
    ( /\ outcome.op \in { "increment", "decrement", "copy" }
      /\ outcome.ok
      /\ Returned.definition.type = "Interval"
      /\ Returned.definition.grade.k # "none" ) =>
        LET d == Returned.definition IN
        /\ NumLeq(d.minimum, Returned.current)
        /\ NumLeq(Returned.current, d.maximum)
        /\ (Returned.current.n - d.minimum.n) % d.grade.n = 0
        /\ Returned.current.t = d.minimum.t

\* The distance of a number from minimum + k * grade is below
\* 10^-FloatEpsilonDigits grades.
WithinToleranceOfStep(value, d, k) ==
    \* fine counts 10^-TinyDigits, a tenth of the tolerance
    LET fine == value.t - d.minimum.t IN
    /\ value.n - d.minimum.n = k * d.grade.n
    /\ fine < 10 * d.grade.n
    /\ -fine < 10 * d.grade.n

\* C7 amended: with a grade g, every Control returned by a successful
\* increment, decrement or copy holds a value in [minimum, maximum] whose
\* distance from some whole number of steps of g above minimum is below
\* 1e-10 steps.
GradedResultNearGrid ==
    ( /\ outcome.op \in { "increment", "decrement", "copy" }
      /\ outcome.ok
      /\ Returned.definition.type = "Interval"
      /\ Returned.definition.grade.k # "none" ) =>
        LET d == Returned.definition IN
        /\ NumLeq(d.minimum, Returned.current)
        /\ NumLeq(Returned.current, d.maximum)
        /\ \E k \in 0..(d.maximum.n - d.minimum.n) :
               WithinToleranceOfStep(Returned.current, d, k)

\* C7 witness: a decrement by the grade from a value off the steps, within
\* the tolerance, returned a value off the steps.
DecrementKeptOffset ==
    /\ outcome.op = "decrement"
    /\ outcome.ok
    /\ Returned.current.n = Receiver.current.n - Receiver.definition.grade.n
    /\ Returned.current.t # Returned.definition.minimum.t

\* C8: on a single-select Options control holding choices[i], cycle_next
\* returns a Control holding choices[(i + 1) mod n] and cycle_previous one
\* holding choices[(i - 1) mod n] (positions counted from 0).
CycleMovesModuloCount ==
    ( /\ outcome.op \in { "cycle_next", "cycle_previous" }
      /\ ~Receiver.definition.allow_multiple ) =>
        LET choices == Receiver.definition.choices.e
            n == Len(choices)
        IN  \A i \in 0..(n - 1) :
                PyEq(choices[i + 1], Receiver.current) =>
                    /\ outcome.ok
                    /\ Returned.current =
                          choices[(IF outcome.op = "cycle_next"
                                   THEN (i + 1) % n
                                   ELSE (i - 1) % n) + 1]

\* C8 witness: cycle_next on the last of three choices returned the first.
CycleNextWrapped ==
    /\ outcome.op = "cycle_next"
    /\ outcome.ok
    /\ Len(Receiver.definition.choices.e) = 3
    /\ Receiver.current = Receiver.definition.choices.e[3]
    /\ Returned.current = Receiver.definition.choices.e[1]

\* new_order has the receiver's length and its entries are exactly
\* 0..length-1.
TruePermutation(order, length) ==
    /\ Len(order) = length
    /\ \A i \in 1..Len(order) : order[i].k = "int"
    /\ { order[i].n : i \in 1..Len(order) } = 0..(length - 1)

\* C9: reorder(new_order) fails with InvalidPermutation unless new_order
\* is a true permutation of the receiver's positions; otherwise the result
\* holds the receiver's current[new_order[i]] at each position i.
ReorderGathersOrRejects ==
    outcome.op = "reorder" =>
        LET current == Receiver.current.e
            order == outcome.arg.e
        IN  IF TruePermutation(order, Len(current))
            THEN /\ outcome.ok
                 /\ Len(Returned.current.e) = Len(current)
                 /\ \A i \in 1..Len(current) :
                        Returned.current.e[i] = current[order[i].n + 1]
            ELSE RaisedClass("InvalidPermutation")

\* C9 witness: a reorder by a permutation that is not the identity
\* returned a sequence in another order.
ReorderedByPermutation ==
    /\ outcome.op = "reorder"
    /\ outcome.ok
    /\ Returned.current # Receiver.current

\* The permutations of 0..n-1, the identity and the inverse.
PermutationsOf(n) ==
    { p \in [ 1..n -> 0..(n - 1) ] :
        \A i, j \in 1..n : i # j => p[i] # p[j] }
IdentityOf(n) == [ i \in 1..n |-> i - 1 ]
InverseOf(p) ==
    [ j \in 1..Len(p) |-> (CHOOSE i \in 1..Len(p) : p[i] = j - 1) - 1 ]
OrderOf(p) == PyList([ i \in 1..Len(p) |-> PyInt(p[i]) ])

\* C10: for every Array control c (taken as it is returned) and every
\* permutation p of its positions, reorder(identity) holds c's current and
\* reorder(p) followed by reorder(inverse of p) holds c's current.
ReorderIdentityAndInverse ==
    (outcome.control # 0 /\ Returned.definition.type = "Array") =>
        LET c == Returned
            n == PyLen(c.current)
            same == reorder(c, OrderOf(IdentityOf(n)))
        IN  /\ same.ok
            /\ same.value.current = c.current
            /\ \A p \in PermutationsOf(n) :
                   LET there == reorder(c, OrderOf(p)) IN
                   /\ there.ok
                   /\ LET back == reorder(there.value, OrderOf(InverseOf(p)))
                      IN  back.ok /\ back.value.current = c.current

\* C10 witness: a reorder returned an Array control of three elements in
\* another order than its receiver's.
ReorderedThreeElements ==
    /\ outcome.op = "reorder"
    /\ outcome.ok
    /\ PyLen(Returned.current) = 3
    /\ Returned.current # Receiver.current

\* The Definition the last call was made on.
Subject == IF outcome.receiver = 0 THEN definition ELSE Receiver.definition

\* The raw sequence the last call handed to ArrayDefinition.validate_value.
Candidate ==
    CASE outcome.op \in { "validate_value", "produce_control", "copy" } ->
             IF outcome.arg = Absent THEN Subject.default_elements
             ELSE outcome.arg
      [] outcome.op = "append" ->
             PyTuple(Append(Receiver.current.e, outcome.arg))
      [] outcome.op = "insert_at" ->
             PyTuple(SubSeq(Receiver.current.e, 1, outcome.index)
                       \o << outcome.arg >>
                       \o SubSeq(Receiver.current.e, outcome.index + 1,
                                 PyLen(Receiver.current)))
      [] outcome.op = "remove_at" ->
             PyTuple(SubSeq(Receiver.current.e, 1, outcome.index)
                       \o SubSeq(Receiver.current.e, outcome.index + 2,
                                 PyLen(Receiver.current)))

\* The last call validated a sequence against an Array definition.
ValidatedSequence ==
    /\ definition # NoDefinition
    /\ Subject.type = "Array"
    /\ \/ /\ outcome.op \in { "validate_value", "produce_control", "copy" }
          /\ IsSequence(Candidate)
       \/ outcome.op = "append"
       \/ /\ outcome.op = "insert_at"
          /\ outcome.index \in 0..PyLen(Receiver.current)
       \/ /\ outcome.op = "remove_at"
          /\ outcome.index \in 0..(PyLen(Receiver.current) - 1)

LengthOutside(d, size) ==
    \/ size < d.size_min.n
    \/ d.size_max.k # "none" /\ size > d.size_max.n

HasInvalidElement(d, sequence) ==
    \E i \in 1..Len(Items(sequence)) :
        ~validate_value(d.element_definition, Items(sequence)[i]).ok

\* C11: whenever the sequence handed to ArrayDefinition.validate_value has
\* a length below size_min or above size_max, the call fails with
\* SizeConstraintViolation, whatever its elements are (invalid or repeated).
SizeCheckedBeforeElements ==
    (ValidatedSequence /\ LengthOutside(Subject, PyLen(Candidate))) =>
        RaisedClass("SizeConstraintViolation")

\* C11 witness: appending an invalid element to an array at size_max
\* reported the size.
AppendInvalidAtSizeMax ==
    /\ outcome.op = "append"
    /\ AtSizeMax(Receiver)
    /\ PyLen(Receiver.current) > 0
    /\ HasInvalidElement(Subject, PyTuple(<< outcome.arg >>))
    /\ RaisedClass("SizeConstraintViolation")

\* Position (from 1) of the first element of a sequence that the element
\* definition rejects.
FirstInvalid(d, sequence) ==
    CHOOSE i \in 1..Len(Items(sequence)) :
        /\ ~validate_value(d.element_definition, Items(sequence)[i]).ok
        /\ \A j \in 1..(i - 1) :
               validate_value(d.element_definition, Items(sequence)[j]).ok

\* C12: when the sequence handed to ArrayDefinition.validate_value has an
\* acceptable length and an element the element definition rejects, the
\* call fails with ElementInvalidity recording the lowest zero-based index
\* of an invalid element and, as its cause, that element's own failure; a
\* failure inside a nested Array element is therefore wrapped once per
\* level, each level with its own index, around the innermost cause.
ElementFailureWrapped ==
    ( /\ ValidatedSequence
      /\ ~LengthOutside(Subject, PyLen(Candidate))
      /\ HasInvalidElement(Subject, Candidate) ) =>
        LET i == FirstInvalid(Subject, Candidate)
            own == validate_value(Subject.element_definition,
                                  Items(Candidate)[i])
        IN  /\ RaisedClass("ElementInvalidity")
            /\ outcome.error.index = i - 1
            /\ outcome.error.cause = << own.error >>
            /\ ( /\ Subject.element_definition.type = "Array"
                 /\ IsSequence(Items(Candidate)[i])
                 /\ ~LengthOutside(Subject.element_definition,
                                   PyLen(Items(Candidate)[i])) ) =>
                   LET inner == outcome.error.cause[1]
                       k == FirstInvalid(Subject.element_definition,
                                         Items(Candidate)[i])
                   IN  /\ inner.class = "ElementInvalidity"
                       /\ inner.index = k - 1
                       /\ Len(inner.cause) = 1
                       /\ inner.cause[1].class # "ElementInvalidity"
                       /\ inner.cause[1] =
                              validate_value(
                                  Subject.element_definition
                                      .element_definition,
                                  Items(Items(Candidate)[i])[k]).error

\* C12 witness: a failure two levels deep was reported with both indices
\* and its innermost cause.
NestedElementFailure ==
    /\ ValidatedSequence
    /\ RaisedClass("ElementInvalidity")
    /\ Len(outcome.error.cause) = 1
    /\ outcome.error.cause[1].class = "ElementInvalidity"
    /\ Len(outcome.error.cause[1].cause) = 1
    /\ outcome.error.cause[1].cause[1].class = "ControlInvalidity"

\* The value the last call yielded: the returned value, or the value held
\* by the returned Control.
Yielded == IF outcome.control # 0 THEN Returned.current ELSE outcome.value

\* The last call handed its argument to the Subject's validate_value.
ValidatedArgument ==
    /\ definition # NoDefinition
    /\ outcome.op \in { "validate_value", "produce_control", "copy" }
    /\ outcome.arg # Absent

\* C13: a multi-select OptionsDefinition validates a value in this order:
\* a non-sequence fails with TypeInvalidity, an empty sequence with
\* SizeConstraintViolation, a sequence with a member outside choices with
\* SelectionConstraintViolation (repeats or not), a sequence with a
\* repeated member with UniquenessConstraintViolation; every other value is
\* accepted and yields its members as a tuple in the input order.
MultiSelectValidation ==
    ( /\ ValidatedArgument
      /\ Subject.type = "Options"
      /\ Subject.allow_multiple ) =>
        LET value == outcome.arg
            members == Items(value)
            outside == \E i \in 1..Len(members) :
                           \A j \in 1..Len(Subject.choices.e) :
                               ~PyEq(members[i], Subject.choices.e[j])
            repeats == \E i, j \in 1..Len(members) :
                           i # j /\ PyEq(members[i], members[j])
        IN  CASE value.k \notin { "str", "list", "tuple" } ->
                     RaisedClass("TypeInvalidity")
              [] IsSequence(value) /\ Len(members) = 0 ->
                     RaisedClass("SizeConstraintViolation")
              [] IsSequence(value) /\ Len(members) > 0 /\ outside ->
                     RaisedClass("SelectionConstraintViolation")
              [] IsSequence(value) /\ Len(members) > 0 /\ ~outside
                   /\ repeats ->
                     RaisedClass("UniquenessConstraintViolation")
              [] OTHER ->
                     /\ outcome.ok
                     /\ Yielded.k = "tuple"
                     /\ Yielded.e = members

\* C13 witness: a sequence with a repeated member and a member outside
\* choices was rejected for the member outside choices.
OutsideReportedOverRepeats ==
    /\ ValidatedArgument
    /\ Subject.type = "Options"
    /\ Subject.allow_multiple
    /\ \E i, j \in 1..Len(Items(outcome.arg)) :
           i # j /\ PyEq(Items(outcome.arg)[i], Items(outcome.arg)[j])
    /\ RaisedClass("SelectionConstraintViolation")

\* Two members of a sequence are equal.
HasEqualPair(items) ==
    \E i, j \in 1..Len(items) : i # j /\ PyEq(items[i], items[j])

\* The elements of a sequence as the element definition returns them.
ValidatedElements(d, sequence) ==
    [ i \in 1..Len(Items(sequence)) |->
        validate_value(d.element_definition, Items(sequence)[i]).value ]

\* C14: with allow_duplicates false every Array control holds pairwise
\* distinct elements, and a produce_control, copy, append or insert_at whose
\* sequence has an acceptable length, valid elements and two equal elements
\* fails with UniquenessConstraintViolation.
DuplicatesKeptOut ==
    /\ \A i \in 1..Len(controls) :
           ( /\ controls[i].definition.type = "Array"
             /\ ~controls[i].definition.allow_duplicates ) =>
               ~HasEqualPair(controls[i].current.e)
    /\ ( /\ ValidatedSequence
         /\ outcome.op \in { "produce_control", "copy", "append",
                              "insert_at" }
         /\ ~Subject.allow_duplicates
         /\ ~LengthOutside(Subject, PyLen(Candidate))
         /\ ~HasInvalidElement(Subject, Candidate)
         /\ HasEqualPair(ValidatedElements(Subject, Candidate)) ) =>
           RaisedClass("UniquenessConstraintViolation")

\* C14 witness: inserting, away from its equal, an element the array
\* already holds was rejected as a duplicate.
InsertedDuplicateRejected ==
    /\ outcome.op = "insert_at"
    /\ ~Subject.allow_duplicates
    /\ PyLen(Receiver.current) = 2
    /\ outcome.index = 0
    /\ ~PyEq(Candidate.e[1], Candidate.e[2])
    /\ RaisedClass("UniquenessConstraintViolation")

\* C15: insert_at fails with IndexOutOfRange unless 0 <= index <= length,
\* and remove_at unless 0 <= index < length, whatever the size limits and
\* the element are; with an index in range the call validates current with
\* the element inserted before position index, respectively with the
\* element at index removed, and returns or fails as that validation does.
IndexCheckedBeforeValue ==
    outcome.op \in { "insert_at", "remove_at" } =>
        LET length == PyLen(Receiver.current)
            last == IF outcome.op = "insert_at" THEN length ELSE length - 1
        IN  IF outcome.index \notin 0..last
            THEN RaisedClass("IndexOutOfRange")
            ELSE LET current == Receiver.current.e
                     i == outcome.index
                     candidate ==
                         IF outcome.op = "insert_at"
                         THEN [ p \in 1..(length + 1) |->
                                  IF p <= i THEN current[p]
                                  ELSE IF p = i + 1 THEN outcome.arg
                                  ELSE current[p - 1] ]
                         ELSE [ p \in 1..(length - 1) |->
                                  IF p <= i THEN current[p]
                                  ELSE current[p + 1] ]
                     validated ==
                         validate_value(Subject, PyTuple(candidate))
                 IN  /\ outcome.ok = validated.ok
                     /\ outcome.ok => Returned.current = validated.value
                     /\ ~outcome.ok => outcome.error = validated.error

\* C15 witness: an insert_at of an invalid element at index -1 into a
\* non-empty array at size_max was rejected for its index.
NegativeIndexRejected ==
    /\ outcome.op = "insert_at"
    /\ outcome.index = -1
    /\ AtSizeMax(Receiver)
    /\ PyLen(Receiver.current) > 0
    /\ HasInvalidElement(Subject, PyTuple(<< outcome.arg >>))
    /\ RaisedClass("IndexOutOfRange")

\* C16: serialize() on a Control returns its definition's serialize_value
\* of its current value; a serialize or serialize_value call leaves the
\* Definition and every Control as they were, and a call repeated on the
\* same value returns an equal output.
SerializeDelegatesAndKeeps ==
    [][outcome'.op \in { "serialize", "serialize_value" } =>
          /\ outcome'.ok
          /\ definition' = definition
          /\ controls' = controls
          /\ outcome'.op = "serialize" =>
                LET before == controls[outcome'.receiver]
                    after == controls'[outcome'.receiver]
                IN  /\ after.current = before.current
                    /\ after.definition = before.definition
                    /\ outcome'.value =
                           serialize_value(before.definition, before.current)
                    /\ serialize(after) = outcome'.value
          /\ outcome'.op = "serialize_value" =>
                outcome'.value = serialize_value(definition, outcome'.arg)
      ]_vars

\* C16 witness: serialize on a Control returned an output of another form
\* than the value held (a list for a tuple), the Control being as before.
SerializedToList ==
    /\ outcome.op = "serialize"
    /\ outcome.ok
    /\ Receiver.current.k = "tuple"
    /\ PyLen(Receiver.current) > 0
    /\ outcome.value.k = "list"

\* A serialized value has the shape of the value it was made from: a list
\* for every tuple, level by level, and the same leaves.
RECURSIVE SameShape(_, _)
SameShape(serialized, value) ==
    IF value.k = "tuple"
    THEN /\ serialized.k = "list"
         /\ Len(serialized.e) = Len(value.e)
         /\ \A i \in 1..Len(value.e) : SameShape(serialized.e[i], value.e[i])
    ELSE serialized = value

\* The value the last serialize or serialize_value call was made on.
SerializedFrom ==
    IF outcome.op = "serialize" THEN Receiver.current ELSE outcome.arg

\* C17: ArrayDefinition.serialize_value of a validated tuple is a list of
\* the same length whose i-th entry is the element definition's
\* serialize_value of the i-th element; over nested Array definitions it is
\* a nested list with the shape and the leaves of the nested tuple.
ArraySerializedElementwise ==
    ( /\ outcome.op \in { "serialize", "serialize_value" }
      /\ Subject.type = "Array"
      /\ SerializedFrom.k = "tuple" ) =>
        /\ outcome.ok
        /\ outcome.value.k = "list"
        /\ Len(outcome.value.e) = Len(SerializedFrom.e)
        /\ \A i \in 1..Len(SerializedFrom.e) :
               outcome.value.e[i] =
                   serialize_value(Subject.element_definition,
                                   SerializedFrom.e[i])
        /\ SameShape(outcome.value, SerializedFrom)

\* C17 witness: an Array of Arrays holding a non-empty inner tuple was
\* serialized to a list holding a non-empty list.
NestedArraySerialized ==
    /\ outcome.op \in { "serialize", "serialize_value" }
    /\ Subject.type = "Array"
    /\ Subject.element_definition.type = "Array"
    /\ \E i \in 1..Len(SerializedFrom.e) :
           /\ SerializedFrom.e[i].k = "tuple"
           /\ Len(SerializedFrom.e[i].e) > 0
           /\ outcome.value.e[i].k = "list"
           /\ Len(outcome.value.e[i].e) > 0

\* C18: TextDefinition.validate_value accepts a value exactly when it is a
\* string of n characters with count_min <= n <= count_max (an absent bound
\* sets no limit) and yields it unchanged; a value that is no string fails
\* with ControlInvalidity, a string outside the bounds with
\* SizeConstraintViolation.
TextValidation ==
    (ValidatedArgument /\ Subject.type = "Text") =>
        LET value == outcome.arg
            n == Len(value.e)
            low == Subject.count_min
            high == Subject.count_max
        IN  IF value.k # "str"
            THEN RaisedClass("ControlInvalidity")
            ELSE IF \/ low # PyNone /\ n < low.n
                    \/ high # PyNone /\ n > high.n
            THEN RaisedClass("SizeConstraintViolation")
            ELSE outcome.ok /\ Yielded = value

\* C18 witness: a string of exactly count_max characters, more than
\* count_min, was accepted.
TextAcceptedAtCountMax ==
    /\ ValidatedArgument
    /\ Subject.type = "Text"
    /\ outcome.ok
    /\ Subject.count_min # PyNone
    /\ Subject.count_max # PyNone
    /\ Len(outcome.arg.e) = Subject.count_max.n
    /\ Len(outcome.arg.e) > Subject.count_min.n

\* C19: Text.clear() returns a new Control holding the empty string when
\* count_min is absent or 0 and fails with SizeConstraintViolation, every
\* Control being left as it was, when count_min >= 1: the outcome of
\* copy( '' ).
ClearIsCopyOfEmpty ==
    [][outcome'.op = "clear" =>
          LET receiver == controls[outcome'.receiver]
              low == receiver.definition.count_min
              copied == copy(receiver, PyStr(<< >>))
          IN  /\ outcome'.ok = copied.ok
              /\ controls'[outcome'.receiver] = receiver
              /\ IF low = PyNone \/ low.n = 0
                 THEN /\ outcome'.ok
                      /\ outcome'.control = Len(controls) + 1
                      /\ controls'[outcome'.control].current.k = "str"
                      /\ Len(controls'[outcome'.control].current.e) = 0
                      /\ controls'[outcome'.control] = copied.value
                 ELSE /\ low.n >= 1
                      /\ ~outcome'.ok
                      /\ outcome'.error.class = "SizeConstraintViolation"
                      /\ outcome'.error = copied.error
                      /\ controls' = controls
      ]_vars

\* C19 witness: clear on a Control holding a non-empty text under
\* count_min >= 1 failed and the Control still holds its text.
ClearRejectedUnderCountMin ==
    /\ outcome.op = "clear"
    /\ Subject.count_min # PyNone
    /\ Subject.count_min.n >= 1
    /\ Len(Receiver.current.e) > 0
    /\ RaisedClass("SizeConstraintViolation")

\* A number is minimum plus a whole number of grades.
OnStep(value, d) ==
    /\ (value.n - d.minimum.n) % d.grade.n = 0
    /\ value.t = d.minimum.t

\* A number is within the tolerance of minimum plus a whole number of
\* grades.
NearStep(value, d) ==
    \E k \in 0..(d.maximum.n - d.minimum.n) :
        WithinToleranceOfStep(value, d, k)

\* C20 as stated: for a numeric input IntervalDefinition.validate_value
\* fails with BoundsConstraintViolation when the value is outside
\* [minimum, maximum], aligned or not; fails with StepConstraintViolation
\* when a grade is set and the in-bounds value is not minimum plus a whole
\* number of grades; and otherwise accepts it, yielding the same number.
IntervalValidationExact ==
    ( /\ ValidatedArgument
      /\ Subject.type = "Interval"
      /\ IsNumber(outcome.arg) ) =>
        LET value == outcome.arg
            d == Subject
        IN  IF ~(NumLeq(d.minimum, value) /\ NumLeq(value, d.maximum))
            THEN RaisedClass("BoundsConstraintViolation")
            ELSE IF d.grade # PyNone /\ ~OnStep(value, d)
            THEN RaisedClass("StepConstraintViolation")
            ELSE outcome.ok /\ PyEq(Yielded, value)

\* C20 amended: for a numeric input IntervalDefinition.validate_value
\* fails with BoundsConstraintViolation when the value is outside
\* [minimum, maximum], aligned or not; fails with StepConstraintViolation
\* when a grade is set and the in-bounds value is 1e-10 steps or more away
\* from every whole number of grades above minimum; and otherwise accepts
\* it, yielding the float of the same number.
IntervalValidation ==
    ( /\ ValidatedArgument
      /\ Subject.type = "Interval"
      /\ IsNumber(outcome.arg) ) =>
        LET value == outcome.arg
            d == Subject
        IN  IF ~(NumLeq(d.minimum, value) /\ NumLeq(value, d.maximum))
            THEN RaisedClass("BoundsConstraintViolation")
            ELSE IF d.grade # PyNone /\ ~NearStep(value, d)
            THEN RaisedClass("StepConstraintViolation")
            ELSE /\ outcome.ok
                 /\ Yielded.k = "float"
                 /\ PyEq(Yielded, value)

\* C20 witness: an in-bounds value off the steps by less than the
\* tolerance was accepted under a grade.
NearStepAccepted ==
    /\ ValidatedArgument
    /\ Subject.type = "Interval"
    /\ Subject.grade # PyNone
    /\ IsNumber(outcome.arg)
    /\ ~OnStep(outcome.arg, Subject)
    /\ outcome.ok
    /\ PyEq(Yielded, outcome.arg)

\* C21: cycle_next and cycle_previous on a Control of a multi-select
\* Options definition fail with CycleOperationFailure, and increment and
\* decrement on a Control of an Interval definition without a grade fail
\* with IncrementOperationFailure, whatever value is held; neither failure
\* is a ControlInvalidity, and no Control is created or changed.
OperationFailuresFromConfiguration ==
    [][/\ ( /\ outcome'.op \in { "cycle_next", "cycle_previous" }
            /\ controls[outcome'.receiver].definition.allow_multiple ) =>
              /\ ~outcome'.ok
              /\ outcome'.error.class = "CycleOperationFailure"
              /\ ~IsControlInvalidity(outcome'.error)
              /\ controls' = controls
              /\ definition' = definition
       /\ ( /\ outcome'.op \in { "increment", "decrement" }
            /\ controls[outcome'.receiver].definition.grade = PyNone ) =>
              /\ ~outcome'.ok
              /\ outcome'.error.class = "IncrementOperationFailure"
              /\ ~IsControlInvalidity(outcome'.error)
              /\ controls' = controls
              /\ definition' = definition
      ]_vars

\* C21 witness: cycle_previous failed on a multi-select Control holding
\* two choices.
CycleRejectedOnMultiSelect ==
    /\ outcome.op = "cycle_previous"
    /\ Subject.allow_multiple
    /\ PyLen(Receiver.current) = 2
    /\ RaisedClass("CycleOperationFailure")

\* A step failed on an Interval Control without grade holding a value
\* above the minimum.
StepRejectedWithoutGrade ==
    /\ outcome.op = "decrement"
    /\ Subject.grade = PyNone
    /\ Receiver.current.n > Subject.minimum.n
    /\ RaisedClass("IncrementOperationFailure")

\* The outcome of k successive toggle calls starting at Control c: each call
\* is made on the Control the one before returned.
RECURSIVE ToggleChain(_, _)
ToggleChain(c, k) ==
    IF k = 0 THEN Return(c)
    ELSE LET before == ToggleChain(c, k - 1) IN
         IF before.ok THEN toggle(before.value) ELSE before

\* C22: toggle on a Control holding a boolean never fails and returns a new
\* Control holding the negation of the receiver's value; a chain of k toggle
\* calls holds the receiver's value when k is even and its negation when k
\* is odd, so toggle().toggle() holds the original value.
ToggleNegatesAndInverts ==
    [][( /\ outcome'.op = "toggle"
         /\ controls[outcome'.receiver].current.k = "bool" ) =>
           LET receiver == controls[outcome'.receiver]
               negation == PyBool(receiver.current = PyFalse)
           IN  /\ outcome'.ok
               /\ outcome'.control = Len(controls) + 1
               /\ controls'[outcome'.control].current = negation
               /\ controls'[outcome'.control].definition = receiver.definition
               /\ controls'[outcome'.receiver] = receiver
               /\ \A k \in 0..MaxToggles :
                     /\ ToggleChain(receiver, k).ok
                     /\ ToggleChain(receiver, k).value.current =
                            IF k % 2 = 0 THEN receiver.current ELSE negation
      ]_vars

\* C22 witness: toggle on a Control holding True returned a Control holding
\* False.
ToggledTrueToFalse ==
    /\ outcome.op = "toggle"
    /\ outcome.ok
    /\ Receiver.current = PyTrue
    /\ Returned.current = PyFalse

\* C23: BooleanDefinition.validate_value accepts exactly the two boolean
\* values and returns them unchanged; a value of any other kind (the
\* integers 0 and 1, a string, None, an empty sequence) fails with
\* ControlInvalidity, in validate_value, copy and produce_control alike.
BooleanValidation ==
    ( ValidatedArgument /\ Subject.type = "Boolean" ) =>
        IF outcome.arg \in { PyTrue, PyFalse }
        THEN outcome.ok /\ Yielded = outcome.arg
        ELSE /\ ~outcome.ok
             /\ outcome.error = Error("ControlInvalidity")
             /\ outcome.control = 0

\* C23 witness: copy with the integer 1 failed on a Boolean Control.
CopyRejectedIntegerOne ==
    /\ outcome.op = "copy"
    /\ Subject.type = "Boolean"
    /\ outcome.arg = PyInt(1)
    /\ RaisedClass("ControlInvalidity")

\* The classes of an exception and of the causes it wraps.
RECURSIVE ErrorChain(_)
ErrorChain(error) ==
    { error.class } \cup
        IF error.cause = << >> THEN { } ELSE ErrorChain(error.cause[1])

\* Transition operations that fail on the Definition's configuration.
ConfiguredOps == { "increment", "decrement", "cycle_next", "cycle_previous" }

\* C24: DefinitionInvalidity is raised only while a Definition is
\* constructed: no later call fails with it, directly or as a wrapped cause;
\* a failing call that validates a value (validate_value, produce_control,
\* produce_default, copy and the transitions built on copy) fails with
\* ControlInvalidity or one of its subtypes.
DefinitionInvalidityOnlyAtConstruction ==
    ( outcome.op \notin { "none", "construct" } /\ ~outcome.ok ) =>
        /\ "DefinitionInvalidity" \notin ErrorChain(outcome.error)
        /\ outcome.op \notin ConfiguredOps =>
              IsControlInvalidity(outcome.error)
        /\ outcome.op \in ConfiguredOps =>
              \/ IsControlInvalidity(outcome.error)
              \/ outcome.error.class \in { "CycleOperationFailure",
                                          "IncrementOperationFailure" }

\* C24 witness: copy failed on a Control of an Array definition because an
\* element was rejected by the element Definition.
CopyRejectedByElementDefinition ==
    /\ outcome.op = "copy"
    /\ Subject.type = "Array"
    /\ RaisedClass("ElementInvalidity")
    /\ IsControlInvalidity(outcome.error.cause[1])

\* Construction failed with DefinitionInvalidity.
ConstructionRejected ==
    /\ outcome.op = "construct"
    /\ RaisedClass("DefinitionInvalidity")

\* What the call thread c is completing returns when no other thread runs.
Alone(c) ==
    Apply(callers[c].op, controls[callers[c].receiver], callers[c].arg,
          callers[c].index)

\* C25: with several threads calling validate_value, serialize and the
\* transition operations on the same Definition and Control, in any
\* interleaving, no step changes the Definition or a Control that exists
\* (Controls are only added), and every call completes with the result, or
\* the failure, the same call gives when made alone on its receiver.
ConcurrentCallsIsolated ==
    [][/\ definition' = definition
       /\ Len(controls') >= Len(controls)
       /\ \A i \in 1..Len(controls) : controls'[i] = controls[i]
       /\ \A c \in CallerIds :
            ( callers[c].phase = "read" /\ callers'[c].phase = "returned" ) =>
                /\ callers'[c].ok = Alone(c).ok
                /\ callers'[c].error = Alone(c).error
                /\ ( Alone(c).ok /\ callers[c].op \in ValueOps ) =>
                      callers'[c].value = Alone(c).value
                /\ ( Alone(c).ok /\ callers[c].op \notin ValueOps ) =>
                      /\ callers'[c].control = Len(controls) + 1
                      /\ controls'[callers'[c].control] = Alone(c).value
      ]_vars

\* C25 witness: two threads have each completed a transition on the shared
\* Control, and each was returned a Control of its own.
TransitionsInterleavedOnSharedControl ==
    \E c1, c2 \in CallerIds :
        /\ c1 # c2
        /\ callers[c1].phase = "returned" /\ callers[c2].phase = "returned"
        /\ callers[c1].receiver = 1 /\ callers[c2].receiver = 1
        /\ callers[c1].op = "append" /\ callers[c2].op = "insert_at"
        /\ callers[c1].ok /\ callers[c2].ok
        /\ callers[c1].control # callers[c2].control
        /\ controls[callers[c1].control].current # controls[1].current

\* A count or size parameter is absent or not negative.
AbsentOrNatural(count) == count = PyNone \/ ( count.k = "int" /\ count.n >= 0 )

\* The constraint parameters of Definition d are consistent.
ConsistentParameters(d) ==
    CASE d.type = "Interval" ->
             /\ IsNumber(d.minimum) /\ IsNumber(d.maximum)
             /\ IsNumber(d.default)
             /\ NumLeq(d.minimum, d.default) /\ NumLeq(d.default, d.maximum)
             /\ \/ d.grade = PyNone
                \/ IsNumber(d.grade) /\ ~NumLeq(d.grade, PyInt(0))
      [] d.type = "Text" ->
             /\ AbsentOrNatural(d.count_min)
             /\ AbsentOrNatural(d.count_max)
             /\ ( d.count_min # PyNone /\ d.count_max # PyNone ) =>
                   d.count_min.n <= d.count_max.n
      [] d.type = "Array" ->
             /\ d.size_min.k = "int" /\ d.size_min.n >= 0
             /\ \/ d.size_max = PyNone
                \/ d.size_max.k = "int" /\ d.size_max.n >= d.size_min.n
      [] d.type = "Options" ->
             /\ PyLen(d.choices) > 0
             /\ ~HasEqualPair(d.choices.e)
      [] OTHER -> TRUE

\* C26: every Definition that was constructed has consistent constraint
\* parameters (Interval: minimum <= default <= maximum, grade absent or
\* positive; Text: counts absent or >= 0, count_min <= count_max; Array:
\* size_min >= 0, size_max absent or >= size_min; Options: choices not
\* empty, without duplicates, in the caller's order); a construction whose
\* arguments violate one of these fails with DefinitionInvalidity and
\* leaves no Definition.
ConstructedDefinitionsConsistent ==
    /\ definition # NoDefinition => ConsistentParameters(definition)
    /\ outcome.op = "construct" =>
          /\ ~ConsistentParameters(outcome.arg) => ~outcome.ok
          /\ ~outcome.ok => /\ outcome.error.class = "DefinitionInvalidity"
                            /\ definition = NoDefinition
          /\ outcome.ok =>
                CASE definition.type = "Options" ->
                         /\ definition.choices = PyTuple(outcome.arg.choices.e)
                         /\ definition.default = outcome.arg.default
                  [] definition.type = "Array" ->
                         /\ definition.size_min = outcome.arg.size_min
                         /\ definition.size_max = outcome.arg.size_max
                  [] OTHER -> definition = outcome.arg

\* C26 witness: the construction of an Interval definition with a default
\* above the maximum failed.
IntervalDefaultAboveMaximumRejected ==
    /\ outcome.op = "construct"
    /\ outcome.arg.type = "Interval"
    /\ IsNumber(outcome.arg.minimum)
    /\ NumLeq(outcome.arg.minimum, outcome.arg.maximum)
    /\ ~NumLeq(outcome.arg.default, outcome.arg.maximum)
    /\ RaisedClass("DefinitionInvalidity")

\* C27: IntervalDefinition.validate_value (and with it produce_control and
\* copy) rejects with ControlInvalidity every value that is not an int or a
\* float (strings, None, sequences, and the booleans True and False), and
\* no Interval Control holds a boolean.
IntervalRejectsNonNumbers ==
    /\ ( /\ ValidatedArgument
         /\ Subject.type = "Interval"
         /\ outcome.arg.k \notin { "int", "float" } ) =>
           /\ ~outcome.ok
           /\ outcome.error = Error("ControlInvalidity")
    /\ \A i \in 1..Len(controls) :
          controls[i].definition.type = "Interval" =>
              controls[i].current.k # "bool"

\* validate_value accepted the boolean True as a number.
IntervalAcceptedTrue ==
    /\ ValidatedArgument
    /\ Subject.type = "Interval"
    /\ outcome.arg = PyTrue
    /\ outcome.ok
    /\ Yielded = PyFloat(1)

\* An Interval Control holds a boolean.
IntervalHoldsBoolean ==
    \E i \in 1..Len(controls) :
        /\ controls[i].definition.type = "Interval"
        /\ controls[i].current.k = "bool"

\* The last call succeeded and what it yielded came out of the Subject's
\* validate_value (produce_control without initial on a Boolean, Text or
\* Interval definition yields self.default as it is).
YieldedValidated ==
    /\ outcome.ok
    /\ \/ outcome.op = "validate_value"
       \/ outcome.op \in TransitionOps
       \/ /\ outcome.op \in { "produce_control", "produce_default" }
          /\ outcome.arg # Absent \/ Subject.type \in { "Options", "Array" }

\* C28: validate_value is idempotent on its own output: a value w that
\* validate_value returned is accepted again by the same Definition and
\* returned as w; so the value of an Array Control and each of its elements
\* is accepted unchanged when a structural operation validates it again.
ValidateIdempotent ==
    /\ YieldedValidated =>
          validate_value(Subject, Yielded) = Return(Yielded)
    /\ \A i \in 1..Len(controls) :
          controls[i].definition.type = "Array" =>
              /\ validate_value(controls[i].definition, controls[i].current)
                     = Return(controls[i].current)
              /\ \A j \in 1..PyLen(controls[i].current) :
                    validate_value(controls[i].definition.element_definition,
                                   controls[i].current.e[j])
                        = Return(controls[i].current.e[j])

\* C28 witness: an Array over Arrays accepted a list of lists and yielded
\* it converted (a tuple of tuples).
NestedListsConverted ==
    /\ outcome.op = "validate_value"
    /\ outcome.ok
    /\ Subject.type = "Array"
    /\ Subject.element_definition.type = "Array"
    /\ PyLen(outcome.arg) = 2
    /\ outcome.value # outcome.arg
    /\ outcome.value.e[2] = PyTuple(<< PyTrue >>)

\* A multi-select Options definition accepted a list and yielded a tuple.
MultiSelectListConverted ==
    /\ outcome.op = "copy"
    /\ outcome.ok
    /\ Subject.type = "Options"
    /\ Subject.allow_multiple
    /\ outcome.arg.k = "list"
    /\ Returned.current = PyTuple(outcome.arg.e)

\* The outcome of k successive cycle_next calls starting at Control c.
RECURSIVE CycleNextChain(_, _)
CycleNextChain(c, k) ==
    IF k = 0 THEN Return(c)
    ELSE LET before == CycleNextChain(c, k - 1) IN
         IF before.ok THEN cycle_next(before.value) ELSE before

\* c.first( ).second( ) holds the value c holds.
RoundTrip(first, second, c) ==
    /\ first.ok
    /\ second.ok
    /\ PyEq(second.value.current, c.current)

\* C29: every single-select Options Control holds one of the choices, so
\* cycle_next and cycle_previous succeed on it; cycle_next then
\* cycle_previous, and cycle_previous then cycle_next, hold the receiver's
\* value again, and so do n cycle_next calls, n the number of choices.
CycleSucceedsAndInverts ==
    /\ \A i \in 1..Len(controls) :
          ( /\ controls[i].definition.type = "Options"
            /\ ~controls[i].definition.allow_multiple ) =>
              LET c == controls[i]
                  n == PyLen(c.definition.choices)
                  next == cycle_next(c)
                  previous == cycle_previous(c)
              IN  /\ PyIn(c.current, c.definition.choices.e)
                  /\ next.ok /\ previous.ok
                  /\ RoundTrip(next, cycle_previous(next.value), c)
                  /\ RoundTrip(previous, cycle_next(previous.value), c)
                  /\ CycleNextChain(c, n).ok
                  /\ PyEq(CycleNextChain(c, n).value.current, c.current)
    /\ ( /\ outcome.op \in { "cycle_next", "cycle_previous" }
         /\ ~Subject.allow_multiple ) => outcome.ok

\* C29 witness: cycle_previous on the first of three choices returned a
\* Control holding the last, from where cycle_next leads back.
CyclePreviousWrapped ==
    /\ outcome.op = "cycle_previous"
    /\ outcome.ok
    /\ PyLen(Subject.choices) = 3
    /\ Receiver.current = Subject.choices.e[1]
    /\ Returned.current = Subject.choices.e[3]
    /\ cycle_next(Returned).value.current = Receiver.current

\* How many members of items are the value v.
Occurrences(items, v) == Cardinality({ i \in 1..Len(items) : items[i] = v })

\* Sequences a and b hold the same elements the same number of times.
SameMultiset(a, b) ==
    /\ Len(a) = Len(b)
    /\ \A i \in 1..Len(a) : Occurrences(a, a[i]) = Occurrences(b, a[i])

\* C30: on every Array Control (produced by produce_control or by a
\* structural operation), reorder with a valid permutation succeeds, so it
\* raises no size, element or uniqueness error, and the result has the
\* length and the multiset of elements of its receiver.
ReorderKeepsElements ==
    /\ \A i \in 1..Len(controls) :
          controls[i].definition.type = "Array" =>
              \A p \in PermutationsOf(PyLen(controls[i].current)) :
                  LET reordered == reorder(controls[i], OrderOf(p)) IN
                  /\ reordered.ok
                  /\ reordered.value.definition = controls[i].definition
                  /\ SameMultiset(reordered.value.current.e,
                                  controls[i].current.e)
    /\ ( /\ outcome.op = "reorder"
         /\ TruePermutation(outcome.arg.e, PyLen(Receiver.current)) ) =>
           /\ outcome.error.class \notin
                  { "SizeConstraintViolation", "ElementInvalidity",
                    "UniquenessConstraintViolation", "InvalidPermutation" }
           /\ outcome.ok
           /\ SameMultiset(Returned.current.e, Receiver.current.e)

\* C30 witness: a reorder swapped the two distinct elements of an Array
\* Control that is at size_max and forbids duplicates.
ReorderedAtSizeMax ==
    /\ outcome.op = "reorder"
    /\ outcome.ok
    /\ ~Subject.allow_duplicates
    /\ AtSizeMax(Receiver)
    /\ PyLen(Receiver.current) = 2
    /\ Returned.current.e[1] = Receiver.current.e[2]
    /\ Returned.current.e[2] = Receiver.current.e[1]
    /\ Returned.current # Receiver.current

==============================================================================
